---------------------------- MODULE Spec2Model ----------------------------
(***************************************************************************)
(* Contract Risk Analyzer (src/app.py): text extraction, the rule-based    *)
(* risk check, the cached summarizer handle and the script run that        *)
(* chains them.                                                            *)
(*                                                                         *)
(* A text (Python str) is a sequence of Unicode code points; a file's raw  *)
(* content is a sequence of bytes 0..255.  An optional value (Python       *)
(* None / value) is the tuple << >> / << value >>.                         *)
(***************************************************************************)
EXTENDS Integers, Sequences, FiniteSets, TLC

VARIABLES
    secrets_file,   \* .streamlit/secrets.toml: << >> when there is no such file,
                    \* else << key >>, key the GEMINI_API_KEY entry ("" when absent)
    env_key,        \* environment variable GEMINI_API_KEY ("" when unset)
    api_key,        \* module global `api_key` of the current run: "" (not yet
                    \* loaded), "valid" or "invalid"
    model_cache,    \* st.cache_resource entry of get_model: << >> or << result >>
    listed,         \* what genai.list_models() produced when selection ran
    selections,     \* how many times the body of get_model has run
    runs,           \* script runs started so far
    pc,             \* position of the current script run
    model,          \* module global `model` of the current run (optional handle)
    widget_value,   \* what the user has put in the uploader (optional file)
    uploader,       \* the page holds the uploader: the run has passed line 140
    uploaded_file,  \* module global `uploaded_file` (optional file)
    path,           \* branch of extract_text taken in this run
    error,          \* exception that ended this run, "" when none
    contract_text,  \* module global `contract_text`
    risks,          \* module global `risks`
    risk_level,     \* module global `risk_level`
    shown,          \* findings and level written to the page (optional)
    prompt_text,    \* the contract text handed to the summarizer (optional)
    ai_result,      \* module global `ai_result` (optional)
    calls,          \* per-run invocation counts of the three functions
    failed_before,  \* some earlier run ended in an extraction failure
    reply           \* how the service answered generate_content in this run:
                    \* "" (not asked), "raised" or "returned"

vars == << secrets_file, env_key, api_key, model_cache, listed, selections,
           runs, pc, model, widget_value, uploader, uploaded_file, path,
           error, contract_text, risks, risk_level, shown, prompt_text,
           ai_result, calls, failed_before, reply >>

-----------------------------------------------------------------------------
(* Bounds of the model. *)
MaxFrags  == 3      \* fragments concatenated into one text / byte content
MaxPages  == 3      \* pages of a pdf
MaxParas  == 2      \* paragraphs of a docx
MaxModels == 2      \* entries produced by list_models
MaxRuns   == 3      \* script runs (user interactions)

-----------------------------------------------------------------------------
(* Texts as code-point sequences. *)

\* "terminate"
KwTerminate == << 116, 101, 114, 109, 105, 110, 97, 116, 101 >>
\* "indemnify"
KwIndemnify == << 105, 110, 100, 101, 109, 110, 105, 102, 121 >>
\* "indemnity"
KwIndemnity == << 105, 110, 100, 101, 109, 110, 105, 116, 121 >>
\* "jurisdiction"
KwJurisdiction == << 106, 117, 114, 105, 115, 100, 105, 99, 116, 105, 111, 110 >>

TerminationLabel  == "Unilateral termination clause"
IndemnityLabel    == "Unlimited indemnity clause"
JurisdictionLabel == "Foreign jurisdiction clause"

\* c is in the run << lo, hi, step, ... >>: lo, lo + step, ..., hi
InRun(c, r) == c >= r[1] /\ c <= r[2] /\ (c - r[1]) % r[3] = 0

\* the one-to-one lower-case mappings of str.lower() above ASCII (Unicode
\* 14.0, the tables of CPython 3.11), as runs << lo, hi, step, delta >>:
\* every code point of the run lower-cases to itself plus delta
LowerTable ==
    { << 192, 214, 1, 32 >>, << 216, 222, 1, 32 >>, << 256, 302, 2, 1 >>,
       << 306, 310, 2, 1 >>, << 313, 327, 2, 1 >>, << 330, 374, 2, 1 >>,
       << 376, 376, 1, -121 >>, << 377, 381, 2, 1 >>, << 385, 385, 1, 210 >>,
       << 386, 388, 2, 1 >>, << 390, 390, 1, 206 >>, << 391, 391, 1, 1 >>,
       << 393, 394, 1, 205 >>, << 395, 395, 1, 1 >>, << 398, 398, 1, 79 >>,
       << 399, 399, 1, 202 >>, << 400, 400, 1, 203 >>, << 401, 401, 1, 1 >>,
       << 403, 403, 1, 205 >>, << 404, 404, 1, 207 >>, << 406, 406, 1, 211 >>,
       << 407, 407, 1, 209 >>, << 408, 408, 1, 1 >>, << 412, 412, 1, 211 >>,
       << 413, 413, 1, 213 >>, << 415, 415, 1, 214 >>, << 416, 420, 2, 1 >>,
       << 422, 422, 1, 218 >>, << 423, 423, 1, 1 >>, << 425, 425, 1, 218 >>,
       << 428, 428, 1, 1 >>, << 430, 430, 1, 218 >>, << 431, 431, 1, 1 >>,
       << 433, 434, 1, 217 >>, << 435, 437, 2, 1 >>, << 439, 439, 1, 219 >>,
       << 440, 440, 1, 1 >>, << 444, 444, 1, 1 >>, << 452, 452, 1, 2 >>,
       << 453, 453, 1, 1 >>, << 455, 455, 1, 2 >>, << 456, 456, 1, 1 >>,
       << 458, 458, 1, 2 >>, << 459, 475, 2, 1 >>, << 478, 494, 2, 1 >>,
       << 497, 497, 1, 2 >>, << 498, 500, 2, 1 >>, << 502, 502, 1, -97 >>,
       << 503, 503, 1, -56 >>, << 504, 542, 2, 1 >>, << 544, 544, 1, -130 >>,
       << 546, 562, 2, 1 >>, << 570, 570, 1, 10795 >>, << 571, 571, 1, 1 >>,
       << 573, 573, 1, -163 >>, << 574, 574, 1, 10792 >>,
       << 577, 577, 1, 1 >>, << 579, 579, 1, -195 >>, << 580, 580, 1, 69 >>,
       << 581, 581, 1, 71 >>, << 582, 590, 2, 1 >>, << 880, 882, 2, 1 >>,
       << 886, 886, 1, 1 >>, << 895, 895, 1, 116 >>, << 902, 902, 1, 38 >>,
       << 904, 906, 1, 37 >>, << 908, 908, 1, 64 >>, << 910, 911, 1, 63 >>,
       << 913, 929, 1, 32 >>, << 931, 939, 1, 32 >>, << 975, 975, 1, 8 >>,
       << 984, 1006, 2, 1 >>, << 1012, 1012, 1, -60 >>,
       << 1015, 1015, 1, 1 >>, << 1017, 1017, 1, -7 >>,
       << 1018, 1018, 1, 1 >>, << 1021, 1023, 1, -130 >>,
       << 1024, 1039, 1, 80 >>, << 1040, 1071, 1, 32 >>,
       << 1120, 1152, 2, 1 >>, << 1162, 1214, 2, 1 >>,
       << 1216, 1216, 1, 15 >>, << 1217, 1229, 2, 1 >>,
       << 1232, 1326, 2, 1 >>, << 1329, 1366, 1, 48 >>,
       << 4256, 4293, 1, 7264 >>, << 4295, 4295, 1, 7264 >>,
       << 4301, 4301, 1, 7264 >>, << 5024, 5103, 1, 38864 >>,
       << 5104, 5109, 1, 8 >>, << 7312, 7354, 1, -3008 >>,
       << 7357, 7359, 1, -3008 >>, << 7680, 7828, 2, 1 >>,
       << 7838, 7838, 1, -7615 >>, << 7840, 7934, 2, 1 >>,
       << 7944, 7951, 1, -8 >>, << 7960, 7965, 1, -8 >>,
       << 7976, 7983, 1, -8 >>, << 7992, 7999, 1, -8 >>,
       << 8008, 8013, 1, -8 >>, << 8025, 8031, 2, -8 >>,
       << 8040, 8047, 1, -8 >>, << 8072, 8079, 1, -8 >>,
       << 8088, 8095, 1, -8 >>, << 8104, 8111, 1, -8 >>,
       << 8120, 8121, 1, -8 >>, << 8122, 8123, 1, -74 >>,
       << 8124, 8124, 1, -9 >>, << 8136, 8139, 1, -86 >>,
       << 8140, 8140, 1, -9 >>, << 8152, 8153, 1, -8 >>,
       << 8154, 8155, 1, -100 >>, << 8168, 8169, 1, -8 >>,
       << 8170, 8171, 1, -112 >>, << 8172, 8172, 1, -7 >>,
       << 8184, 8185, 1, -128 >>, << 8186, 8187, 1, -126 >>,
       << 8188, 8188, 1, -9 >>, << 8486, 8486, 1, -7517 >>,
       << 8490, 8490, 1, -8383 >>, << 8491, 8491, 1, -8262 >>,
       << 8498, 8498, 1, 28 >>, << 8544, 8559, 1, 16 >>,
       << 8579, 8579, 1, 1 >>, << 9398, 9423, 1, 26 >>,
       << 11264, 11311, 1, 48 >>, << 11360, 11360, 1, 1 >>,
       << 11362, 11362, 1, -10743 >>, << 11363, 11363, 1, -3814 >>,
       << 11364, 11364, 1, -10727 >>, << 11367, 11371, 2, 1 >>,
       << 11373, 11373, 1, -10780 >>, << 11374, 11374, 1, -10749 >>,
       << 11375, 11375, 1, -10783 >>, << 11376, 11376, 1, -10782 >>,
       << 11378, 11378, 1, 1 >>, << 11381, 11381, 1, 1 >>,
       << 11390, 11391, 1, -10815 >>, << 11392, 11490, 2, 1 >>,
       << 11499, 11501, 2, 1 >>, << 11506, 11506, 1, 1 >>,
       << 42560, 42604, 2, 1 >>, << 42624, 42650, 2, 1 >>,
       << 42786, 42798, 2, 1 >>, << 42802, 42862, 2, 1 >>,
       << 42873, 42875, 2, 1 >>, << 42877, 42877, 1, -35332 >>,
       << 42878, 42886, 2, 1 >>, << 42891, 42891, 1, 1 >>,
       << 42893, 42893, 1, -42280 >>, << 42896, 42898, 2, 1 >>,
       << 42902, 42920, 2, 1 >>, << 42922, 42922, 1, -42308 >>,
       << 42923, 42923, 1, -42319 >>, << 42924, 42924, 1, -42315 >>,
       << 42925, 42925, 1, -42305 >>, << 42926, 42926, 1, -42308 >>,
       << 42928, 42928, 1, -42258 >>, << 42929, 42929, 1, -42282 >>,
       << 42930, 42930, 1, -42261 >>, << 42931, 42931, 1, 928 >>,
       << 42932, 42946, 2, 1 >>, << 42948, 42948, 1, -48 >>,
       << 42949, 42949, 1, -42307 >>, << 42950, 42950, 1, -35384 >>,
       << 42951, 42953, 2, 1 >>, << 42960, 42960, 1, 1 >>,
       << 42966, 42968, 2, 1 >>, << 42997, 42997, 1, 1 >>,
       << 65313, 65338, 1, 32 >>, << 66560, 66599, 1, 40 >>,
       << 66736, 66771, 1, 40 >>, << 66928, 66938, 1, 39 >>,
       << 66940, 66954, 1, 39 >>, << 66956, 66962, 1, 39 >>,
       << 66964, 66965, 1, 39 >>, << 68736, 68786, 1, 64 >>,
       << 71840, 71871, 1, 32 >>, << 93760, 93791, 1, 32 >>,
       << 125184, 125217, 1, 34 >> }

\* the cased code points that are not case-ignorable, as runs << lo, hi, step >>
CasedTable ==
    { << 65, 90, 1 >>, << 97, 122, 1 >>, << 170, 170, 1 >>, << 181, 181, 1 >>,
       << 186, 186, 1 >>, << 192, 214, 1 >>, << 216, 246, 1 >>,
       << 248, 442, 1 >>, << 444, 447, 1 >>, << 452, 659, 1 >>,
       << 661, 687, 1 >>, << 880, 883, 1 >>, << 886, 887, 1 >>,
       << 891, 893, 1 >>, << 895, 895, 1 >>, << 902, 904, 2 >>,
       << 905, 906, 1 >>, << 908, 910, 2 >>, << 911, 929, 1 >>,
       << 931, 1013, 1 >>, << 1015, 1153, 1 >>, << 1162, 1327, 1 >>,
       << 1329, 1366, 1 >>, << 1376, 1416, 1 >>, << 4256, 4293, 1 >>,
       << 4295, 4295, 1 >>, << 4301, 4301, 1 >>, << 4304, 4346, 1 >>,
       << 4349, 4351, 1 >>, << 5024, 5109, 1 >>, << 5112, 5117, 1 >>,
       << 7296, 7304, 1 >>, << 7312, 7354, 1 >>, << 7357, 7359, 1 >>,
       << 7424, 7467, 1 >>, << 7531, 7543, 1 >>, << 7545, 7578, 1 >>,
       << 7680, 7957, 1 >>, << 7960, 7965, 1 >>, << 7968, 8005, 1 >>,
       << 8008, 8013, 1 >>, << 8016, 8023, 1 >>, << 8025, 8031, 2 >>,
       << 8032, 8061, 1 >>, << 8064, 8116, 1 >>, << 8118, 8124, 1 >>,
       << 8126, 8126, 1 >>, << 8130, 8132, 1 >>, << 8134, 8140, 1 >>,
       << 8144, 8147, 1 >>, << 8150, 8155, 1 >>, << 8160, 8172, 1 >>,
       << 8178, 8180, 1 >>, << 8182, 8188, 1 >>, << 8450, 8450, 1 >>,
       << 8455, 8455, 1 >>, << 8458, 8467, 1 >>, << 8469, 8469, 1 >>,
       << 8473, 8477, 1 >>, << 8484, 8490, 2 >>, << 8491, 8493, 1 >>,
       << 8495, 8500, 1 >>, << 8505, 8505, 1 >>, << 8508, 8511, 1 >>,
       << 8517, 8521, 1 >>, << 8526, 8526, 1 >>, << 8544, 8575, 1 >>,
       << 8579, 8580, 1 >>, << 9398, 9449, 1 >>, << 11264, 11387, 1 >>,
       << 11390, 11492, 1 >>, << 11499, 11502, 1 >>, << 11506, 11507, 1 >>,
       << 11520, 11557, 1 >>, << 11559, 11559, 1 >>, << 11565, 11565, 1 >>,
       << 42560, 42605, 1 >>, << 42624, 42651, 1 >>, << 42786, 42863, 1 >>,
       << 42865, 42887, 1 >>, << 42891, 42894, 1 >>, << 42896, 42954, 1 >>,
       << 42960, 42961, 1 >>, << 42963, 42965, 2 >>, << 42966, 42969, 1 >>,
       << 42997, 42998, 1 >>, << 43002, 43002, 1 >>, << 43824, 43866, 1 >>,
       << 43872, 43880, 1 >>, << 43888, 43967, 1 >>, << 64256, 64262, 1 >>,
       << 64275, 64279, 1 >>, << 65313, 65338, 1 >>, << 65345, 65370, 1 >>,
       << 66560, 66639, 1 >>, << 66736, 66771, 1 >>, << 66776, 66811, 1 >>,
       << 66928, 66938, 1 >>, << 66940, 66954, 1 >>, << 66956, 66962, 1 >>,
       << 66964, 66965, 1 >>, << 66967, 66977, 1 >>, << 66979, 66993, 1 >>,
       << 66995, 67001, 1 >>, << 67003, 67004, 1 >>, << 68736, 68786, 1 >>,
       << 68800, 68850, 1 >>, << 71840, 71903, 1 >>, << 93760, 93823, 1 >>,
       << 119808, 119892, 1 >>, << 119894, 119964, 1 >>,
       << 119966, 119967, 1 >>, << 119970, 119970, 1 >>,
       << 119973, 119974, 1 >>, << 119977, 119980, 1 >>,
       << 119982, 119993, 1 >>, << 119995, 119997, 2 >>,
       << 119998, 120003, 1 >>, << 120005, 120069, 1 >>,
       << 120071, 120074, 1 >>, << 120077, 120084, 1 >>,
       << 120086, 120092, 1 >>, << 120094, 120121, 1 >>,
       << 120123, 120126, 1 >>, << 120128, 120132, 1 >>,
       << 120134, 120134, 1 >>, << 120138, 120144, 1 >>,
       << 120146, 120485, 1 >>, << 120488, 120512, 1 >>,
       << 120514, 120538, 1 >>, << 120540, 120570, 1 >>,
       << 120572, 120596, 1 >>, << 120598, 120628, 1 >>,
       << 120630, 120654, 1 >>, << 120656, 120686, 1 >>,
       << 120688, 120712, 1 >>, << 120714, 120744, 1 >>,
       << 120746, 120770, 1 >>, << 120772, 120779, 1 >>,
       << 122624, 122633, 1 >>, << 122635, 122654, 1 >>,
       << 125184, 125251, 1 >>, << 127280, 127305, 1 >>,
       << 127312, 127337, 1 >>, << 127344, 127369, 1 >> }

\* the case-ignorable code points, as runs << lo, hi, step >>
CaseIgnorableTable ==
    { << 39, 39, 1 >>, << 46, 46, 1 >>, << 58, 58, 1 >>, << 94, 96, 2 >>,
       << 168, 168, 1 >>, << 173, 175, 2 >>, << 180, 180, 1 >>,
       << 183, 184, 1 >>, << 688, 879, 1 >>, << 884, 885, 1 >>,
       << 890, 890, 1 >>, << 900, 901, 1 >>, << 903, 903, 1 >>,
       << 1155, 1161, 1 >>, << 1369, 1369, 1 >>, << 1375, 1375, 1 >>,
       << 1425, 1469, 1 >>, << 1471, 1473, 2 >>, << 1474, 1476, 2 >>,
       << 1477, 1479, 2 >>, << 1524, 1524, 1 >>, << 1536, 1541, 1 >>,
       << 1552, 1562, 1 >>, << 1564, 1564, 1 >>, << 1600, 1600, 1 >>,
       << 1611, 1631, 1 >>, << 1648, 1648, 1 >>, << 1750, 1757, 1 >>,
       << 1759, 1768, 1 >>, << 1770, 1773, 1 >>, << 1807, 1809, 2 >>,
       << 1840, 1866, 1 >>, << 1958, 1968, 1 >>, << 2027, 2037, 1 >>,
       << 2042, 2042, 1 >>, << 2045, 2045, 1 >>, << 2070, 2093, 1 >>,
       << 2137, 2139, 1 >>, << 2184, 2184, 1 >>, << 2192, 2193, 1 >>,
       << 2200, 2207, 1 >>, << 2249, 2306, 1 >>, << 2362, 2364, 2 >>,
       << 2369, 2376, 1 >>, << 2381, 2381, 1 >>, << 2385, 2391, 1 >>,
       << 2402, 2403, 1 >>, << 2417, 2417, 1 >>, << 2433, 2433, 1 >>,
       << 2492, 2492, 1 >>, << 2497, 2500, 1 >>, << 2509, 2509, 1 >>,
       << 2530, 2531, 1 >>, << 2558, 2558, 1 >>, << 2561, 2562, 1 >>,
       << 2620, 2620, 1 >>, << 2625, 2626, 1 >>, << 2631, 2632, 1 >>,
       << 2635, 2637, 1 >>, << 2641, 2641, 1 >>, << 2672, 2673, 1 >>,
       << 2677, 2677, 1 >>, << 2689, 2690, 1 >>, << 2748, 2748, 1 >>,
       << 2753, 2757, 1 >>, << 2759, 2760, 1 >>, << 2765, 2765, 1 >>,
       << 2786, 2787, 1 >>, << 2810, 2815, 1 >>, << 2817, 2817, 1 >>,
       << 2876, 2876, 1 >>, << 2879, 2881, 2 >>, << 2882, 2884, 1 >>,
       << 2893, 2893, 1 >>, << 2901, 2902, 1 >>, << 2914, 2915, 1 >>,
       << 2946, 2946, 1 >>, << 3008, 3008, 1 >>, << 3021, 3021, 1 >>,
       << 3072, 3072, 1 >>, << 3076, 3076, 1 >>, << 3132, 3134, 2 >>,
       << 3135, 3136, 1 >>, << 3142, 3144, 1 >>, << 3146, 3149, 1 >>,
       << 3157, 3158, 1 >>, << 3170, 3171, 1 >>, << 3201, 3201, 1 >>,
       << 3260, 3260, 1 >>, << 3263, 3263, 1 >>, << 3270, 3270, 1 >>,
       << 3276, 3277, 1 >>, << 3298, 3299, 1 >>, << 3328, 3329, 1 >>,
       << 3387, 3388, 1 >>, << 3393, 3396, 1 >>, << 3405, 3405, 1 >>,
       << 3426, 3427, 1 >>, << 3457, 3457, 1 >>, << 3530, 3530, 1 >>,
       << 3538, 3540, 1 >>, << 3542, 3542, 1 >>, << 3633, 3633, 1 >>,
       << 3636, 3642, 1 >>, << 3654, 3662, 1 >>, << 3761, 3761, 1 >>,
       << 3764, 3772, 1 >>, << 3782, 3784, 2 >>, << 3785, 3789, 1 >>,
       << 3864, 3865, 1 >>, << 3893, 3897, 2 >>, << 3953, 3966, 1 >>,
       << 3968, 3972, 1 >>, << 3974, 3975, 1 >>, << 3981, 3991, 1 >>,
       << 3993, 4028, 1 >>, << 4038, 4038, 1 >>, << 4141, 4144, 1 >>,
       << 4146, 4151, 1 >>, << 4153, 4154, 1 >>, << 4157, 4158, 1 >>,
       << 4184, 4185, 1 >>, << 4190, 4192, 1 >>, << 4209, 4212, 1 >>,
       << 4226, 4226, 1 >>, << 4229, 4230, 1 >>, << 4237, 4237, 1 >>,
       << 4253, 4253, 1 >>, << 4348, 4348, 1 >>, << 4957, 4959, 1 >>,
       << 5906, 5908, 1 >>, << 5938, 5939, 1 >>, << 5970, 5971, 1 >>,
       << 6002, 6003, 1 >>, << 6068, 6069, 1 >>, << 6071, 6077, 1 >>,
       << 6086, 6086, 1 >>, << 6089, 6099, 1 >>, << 6103, 6103, 1 >>,
       << 6109, 6109, 1 >>, << 6155, 6159, 1 >>, << 6211, 6211, 1 >>,
       << 6277, 6278, 1 >>, << 6313, 6313, 1 >>, << 6432, 6434, 1 >>,
       << 6439, 6440, 1 >>, << 6450, 6450, 1 >>, << 6457, 6459, 1 >>,
       << 6679, 6680, 1 >>, << 6683, 6683, 1 >>, << 6742, 6744, 2 >>,
       << 6745, 6750, 1 >>, << 6752, 6754, 2 >>, << 6757, 6764, 1 >>,
       << 6771, 6780, 1 >>, << 6783, 6783, 1 >>, << 6823, 6823, 1 >>,
       << 6832, 6862, 1 >>, << 6912, 6915, 1 >>, << 6964, 6966, 2 >>,
       << 6967, 6970, 1 >>, << 6972, 6972, 1 >>, << 6978, 6978, 1 >>,
       << 7019, 7027, 1 >>, << 7040, 7041, 1 >>, << 7074, 7077, 1 >>,
       << 7080, 7081, 1 >>, << 7083, 7085, 1 >>, << 7142, 7144, 2 >>,
       << 7145, 7145, 1 >>, << 7149, 7151, 2 >>, << 7152, 7153, 1 >>,
       << 7212, 7219, 1 >>, << 7222, 7223, 1 >>, << 7288, 7293, 1 >>,
       << 7376, 7378, 1 >>, << 7380, 7392, 1 >>, << 7394, 7400, 1 >>,
       << 7405, 7405, 1 >>, << 7412, 7412, 1 >>, << 7416, 7417, 1 >>,
       << 7468, 7530, 1 >>, << 7544, 7544, 1 >>, << 7579, 7679, 1 >>,
       << 8125, 8127, 2 >>, << 8128, 8129, 1 >>, << 8141, 8143, 1 >>,
       << 8157, 8159, 1 >>, << 8173, 8175, 1 >>, << 8189, 8190, 1 >>,
       << 8203, 8207, 1 >>, << 8216, 8217, 1 >>, << 8228, 8228, 1 >>,
       << 8231, 8231, 1 >>, << 8234, 8238, 1 >>, << 8288, 8292, 1 >>,
       << 8294, 8303, 1 >>, << 8305, 8305, 1 >>, << 8319, 8319, 1 >>,
       << 8336, 8348, 1 >>, << 8400, 8432, 1 >>, << 11388, 11389, 1 >>,
       << 11503, 11505, 1 >>, << 11631, 11631, 1 >>, << 11647, 11647, 1 >>,
       << 11744, 11775, 1 >>, << 11823, 11823, 1 >>, << 12293, 12293, 1 >>,
       << 12330, 12333, 1 >>, << 12337, 12341, 1 >>, << 12347, 12347, 1 >>,
       << 12441, 12446, 1 >>, << 12540, 12542, 1 >>, << 40981, 40981, 1 >>,
       << 42232, 42237, 1 >>, << 42508, 42508, 1 >>, << 42607, 42610, 1 >>,
       << 42612, 42621, 1 >>, << 42623, 42623, 1 >>, << 42652, 42655, 1 >>,
       << 42736, 42737, 1 >>, << 42752, 42785, 1 >>, << 42864, 42864, 1 >>,
       << 42888, 42890, 1 >>, << 42994, 42996, 1 >>, << 43000, 43001, 1 >>,
       << 43010, 43010, 1 >>, << 43014, 43014, 1 >>, << 43019, 43019, 1 >>,
       << 43045, 43046, 1 >>, << 43052, 43052, 1 >>, << 43204, 43205, 1 >>,
       << 43232, 43249, 1 >>, << 43263, 43263, 1 >>, << 43302, 43309, 1 >>,
       << 43335, 43345, 1 >>, << 43392, 43394, 1 >>, << 43443, 43443, 1 >>,
       << 43446, 43449, 1 >>, << 43452, 43453, 1 >>, << 43471, 43471, 1 >>,
       << 43493, 43494, 1 >>, << 43561, 43566, 1 >>, << 43569, 43570, 1 >>,
       << 43573, 43574, 1 >>, << 43587, 43587, 1 >>, << 43596, 43596, 1 >>,
       << 43632, 43632, 1 >>, << 43644, 43644, 1 >>, << 43696, 43698, 2 >>,
       << 43699, 43700, 1 >>, << 43703, 43704, 1 >>, << 43710, 43711, 1 >>,
       << 43713, 43713, 1 >>, << 43741, 43741, 1 >>, << 43756, 43757, 1 >>,
       << 43763, 43764, 1 >>, << 43766, 43766, 1 >>, << 43867, 43871, 1 >>,
       << 43881, 43883, 1 >>, << 44005, 44005, 1 >>, << 44008, 44008, 1 >>,
       << 44013, 44013, 1 >>, << 64286, 64286, 1 >>, << 64434, 64450, 1 >>,
       << 65024, 65039, 1 >>, << 65043, 65043, 1 >>, << 65056, 65071, 1 >>,
       << 65106, 65106, 1 >>, << 65109, 65109, 1 >>, << 65279, 65279, 1 >>,
       << 65287, 65287, 1 >>, << 65294, 65294, 1 >>, << 65306, 65306, 1 >>,
       << 65342, 65344, 2 >>, << 65392, 65392, 1 >>, << 65438, 65439, 1 >>,
       << 65507, 65507, 1 >>, << 65529, 65531, 1 >>, << 66045, 66045, 1 >>,
       << 66272, 66272, 1 >>, << 66422, 66426, 1 >>, << 67456, 67461, 1 >>,
       << 67463, 67504, 1 >>, << 67506, 67514, 1 >>, << 68097, 68099, 1 >>,
       << 68101, 68102, 1 >>, << 68108, 68111, 1 >>, << 68152, 68154, 1 >>,
       << 68159, 68159, 1 >>, << 68325, 68326, 1 >>, << 68900, 68903, 1 >>,
       << 69291, 69292, 1 >>, << 69446, 69456, 1 >>, << 69506, 69509, 1 >>,
       << 69633, 69633, 1 >>, << 69688, 69702, 1 >>, << 69744, 69744, 1 >>,
       << 69747, 69748, 1 >>, << 69759, 69761, 1 >>, << 69811, 69814, 1 >>,
       << 69817, 69818, 1 >>, << 69821, 69821, 1 >>, << 69826, 69826, 1 >>,
       << 69837, 69837, 1 >>, << 69888, 69890, 1 >>, << 69927, 69931, 1 >>,
       << 69933, 69940, 1 >>, << 70003, 70003, 1 >>, << 70016, 70017, 1 >>,
       << 70070, 70078, 1 >>, << 70089, 70092, 1 >>, << 70095, 70095, 1 >>,
       << 70191, 70193, 1 >>, << 70196, 70198, 2 >>, << 70199, 70199, 1 >>,
       << 70206, 70206, 1 >>, << 70367, 70367, 1 >>, << 70371, 70378, 1 >>,
       << 70400, 70401, 1 >>, << 70459, 70460, 1 >>, << 70464, 70464, 1 >>,
       << 70502, 70508, 1 >>, << 70512, 70516, 1 >>, << 70712, 70719, 1 >>,
       << 70722, 70724, 1 >>, << 70726, 70726, 1 >>, << 70750, 70750, 1 >>,
       << 70835, 70840, 1 >>, << 70842, 70842, 1 >>, << 70847, 70848, 1 >>,
       << 70850, 70851, 1 >>, << 71090, 71093, 1 >>, << 71100, 71101, 1 >>,
       << 71103, 71104, 1 >>, << 71132, 71133, 1 >>, << 71219, 71226, 1 >>,
       << 71229, 71231, 2 >>, << 71232, 71232, 1 >>, << 71339, 71341, 2 >>,
       << 71344, 71349, 1 >>, << 71351, 71351, 1 >>, << 71453, 71455, 1 >>,
       << 71458, 71461, 1 >>, << 71463, 71467, 1 >>, << 71727, 71735, 1 >>,
       << 71737, 71738, 1 >>, << 71995, 71996, 1 >>, << 71998, 71998, 1 >>,
       << 72003, 72003, 1 >>, << 72148, 72151, 1 >>, << 72154, 72155, 1 >>,
       << 72160, 72160, 1 >>, << 72193, 72202, 1 >>, << 72243, 72248, 1 >>,
       << 72251, 72254, 1 >>, << 72263, 72263, 1 >>, << 72273, 72278, 1 >>,
       << 72281, 72283, 1 >>, << 72330, 72342, 1 >>, << 72344, 72345, 1 >>,
       << 72752, 72758, 1 >>, << 72760, 72765, 1 >>, << 72767, 72767, 1 >>,
       << 72850, 72871, 1 >>, << 72874, 72880, 1 >>, << 72882, 72883, 1 >>,
       << 72885, 72886, 1 >>, << 73009, 73014, 1 >>, << 73018, 73020, 2 >>,
       << 73021, 73023, 2 >>, << 73024, 73029, 1 >>, << 73031, 73031, 1 >>,
       << 73104, 73105, 1 >>, << 73109, 73111, 2 >>, << 73459, 73460, 1 >>,
       << 78896, 78904, 1 >>, << 92912, 92916, 1 >>, << 92976, 92982, 1 >>,
       << 92992, 92995, 1 >>, << 94031, 94031, 1 >>, << 94095, 94111, 1 >>,
       << 94176, 94177, 1 >>, << 94179, 94180, 1 >>, << 110576, 110579, 1 >>,
       << 110581, 110587, 1 >>, << 110589, 110590, 1 >>,
       << 113821, 113822, 1 >>, << 113824, 113827, 1 >>,
       << 118528, 118573, 1 >>, << 118576, 118598, 1 >>,
       << 119143, 119145, 1 >>, << 119155, 119170, 1 >>,
       << 119173, 119179, 1 >>, << 119210, 119213, 1 >>,
       << 119362, 119364, 1 >>, << 121344, 121398, 1 >>,
       << 121403, 121452, 1 >>, << 121461, 121461, 1 >>,
       << 121476, 121476, 1 >>, << 121499, 121503, 1 >>,
       << 121505, 121519, 1 >>, << 122880, 122886, 1 >>,
       << 122888, 122904, 1 >>, << 122907, 122913, 1 >>,
       << 122915, 122916, 1 >>, << 122918, 122922, 1 >>,
       << 123184, 123197, 1 >>, << 123566, 123566, 1 >>,
       << 123628, 123631, 1 >>, << 125136, 125142, 1 >>,
       << 125252, 125259, 1 >>, << 127995, 127999, 1 >>,
       << 917505, 917505, 1 >>, << 917536, 917631, 1 >>,
       << 917760, 917999, 1 >> }

\* str.lower() of one code point, as a text: U+0130 lower-cases to two code
\* points, every other cased code point to one
LowerChar(c) ==
    IF c < 128 THEN (IF c \in 65..90 THEN << c + 32 >> ELSE << c >>)
    ELSE IF c = 304 THEN << 105, 775 >>
    ELSE LET hit == { r \in LowerTable : InRun(c, r) }
         IN  IF hit = {} THEN << c >>
             ELSE << c + (CHOOSE r \in hit : TRUE)[4] >>

IsCased(c) == \E r \in CasedTable : InRun(c, r)

IsCaseIgnorable(c) == \E r \in CaseIgnorableTable : InRun(c, r)

\* the nearest position at or before j / at or after j that holds no
\* case-ignorable code point (0 / Len(text) + 1 when there is none)
RECURSIVE SkipBack(_, _)
SkipBack(text, j) ==
    IF j >= 1 /\ IsCaseIgnorable(text[j]) THEN SkipBack(text, j - 1) ELSE j

RECURSIVE SkipForward(_, _)
SkipForward(text, j) ==
    IF j <= Len(text) /\ IsCaseIgnorable(text[j]) THEN SkipForward(text, j + 1)
    ELSE j

\* lower case of the capital sigma at position i: the final form U+03C2 when a
\* cased letter precedes it and none follows (case-ignorable code points
\* skipped), else U+03C3
SigmaAt(text, i) ==
    LET j == SkipBack(text, i - 1)
        k == SkipForward(text, i + 1)
    IN  IF /\ j >= 1
           /\ IsCased(text[j])
           /\ (k > Len(text) \/ ~IsCased(text[k]))
        THEN 962 ELSE 963

\* text.lower()
RECURSIVE LowerFrom(_, _)
LowerFrom(text, i) ==
    IF i > Len(text) THEN << >>
    ELSE (IF text[i] = 931 THEN << SigmaAt(text, i) >> ELSE LowerChar(text[i]))
         \o LowerFrom(text, i + 1)

Lower(text) == LowerFrom(text, 1)

\* does `t` start with `kw` at position i (1-based)
MatchAt(kw, t, i) ==
    /\ i + Len(kw) - 1 <= Len(t)
    /\ \A k \in 1..Len(kw) : t[i + k - 1] = kw[k]

\* kw in t : left-to-right scan for the first match
RECURSIVE ScanFrom(_, _, _)
ScanFrom(kw, t, i) ==
    IF i + Len(kw) - 1 > Len(t) THEN FALSE
    ELSE IF MatchAt(kw, t, i) THEN TRUE
    ELSE ScanFrom(kw, t, i + 1)

Contains(kw, t) == ScanFrom(kw, t, 1)

\* variant of LevelOf: "High" only above two findings
LevelOfStrict(found) ==
    IF Len(found) > 2 THEN "High"
    ELSE IF Len(found) = 1 THEN "Medium"
    ELSE "Low"

\* the severity expression of rule_based_risk
LevelOf(found) ==
    IF Len(found) >= 2 THEN "High"
    ELSE IF Len(found) = 1 THEN "Medium"
    ELSE "Low"

\* variant of rule_based_risk: the indemnity test is an `elif` of the
\* termination test
rule_based_risk_elif(text) ==
    LET t  == Lower(text)
        r1 == IF Contains(KwTerminate, t) THEN << TerminationLabel >> ELSE << >>
        r2 == IF r1 = << >> /\ (Contains(KwIndemnify, t) \/ Contains(KwIndemnity, t))
              THEN Append(r1, IndemnityLabel) ELSE r1
        r3 == IF Contains(KwJurisdiction, t)
              THEN Append(r2, JurisdictionLabel) ELSE r2
    IN  << r3, LevelOf(r3) >>

\* variant of rule_based_risk: the jurisdiction test comes first
rule_based_risk_reordered(text) ==
    LET t  == Lower(text)
        r1 == IF Contains(KwJurisdiction, t) THEN << JurisdictionLabel >> ELSE << >>
        r2 == IF Contains(KwTerminate, t)
              THEN Append(r1, TerminationLabel) ELSE r1
        r3 == IF Contains(KwIndemnify, t) \/ Contains(KwIndemnity, t)
              THEN Append(r2, IndemnityLabel) ELSE r2
    IN  << r3, LevelOf(r3) >>

\* rule_based_risk(text) -> (risks, level)
rule_based_risk(text) ==
    LET t  == Lower(text)
        r1 == IF Contains(KwTerminate, t) THEN << TerminationLabel >> ELSE << >>
        r2 == IF Contains(KwIndemnify, t) \/ Contains(KwIndemnity, t)
              THEN Append(r1, IndemnityLabel) ELSE r1
        r3 == IF Contains(KwJurisdiction, t)
              THEN Append(r2, JurisdictionLabel) ELSE r2
    IN  << r3, LevelOf(r3) >>

-----------------------------------------------------------------------------
(* bytes.decode("utf-8"): strict decoding of well-formed UTF-8 only. *)

IsCont(b) == b \in 128..191

\* result of a call that may raise: ok = FALSE carries the exception name
Returned(v)  == [ok |-> TRUE,  value |-> v,    error |-> ""]
Raised(e)    == [ok |-> FALSE, value |-> << >>, error |-> e]

RECURSIVE DecodeFrom(_, _, _)
DecodeFrom(b, i, acc) ==
    IF i > Len(b) THEN Returned(acc)
    ELSE LET b0 == b[i]
             n  == Len(b)
         IN
         IF b0 < 128 THEN DecodeFrom(b, i + 1, Append(acc, b0))
         ELSE IF b0 \in 194..223 THEN
             IF i + 1 <= n /\ IsCont(b[i + 1])
             THEN DecodeFrom(b, i + 2,
                             Append(acc, (b0 - 192) * 64 + (b[i + 1] - 128)))
             ELSE Raised("UnicodeDecodeError")
         ELSE IF b0 \in 224..239 THEN
             IF /\ i + 2 <= n
                /\ IsCont(b[i + 1])
                /\ IsCont(b[i + 2])
                /\ (b0 = 224 => b[i + 1] >= 160)
                /\ (b0 = 237 => b[i + 1] <= 159)
             THEN DecodeFrom(b, i + 3,
                             Append(acc, (b0 - 224) * 4096
                                         + (b[i + 1] - 128) * 64
                                         + (b[i + 2] - 128)))
             ELSE Raised("UnicodeDecodeError")
         ELSE IF b0 \in 240..244 THEN
             IF /\ i + 3 <= n
                /\ IsCont(b[i + 1])
                /\ IsCont(b[i + 2])
                /\ IsCont(b[i + 3])
                /\ (b0 = 240 => b[i + 1] >= 144)
                /\ (b0 = 244 => b[i + 1] <= 143)
             THEN DecodeFrom(b, i + 4,
                             Append(acc, (b0 - 240) * 262144
                                         + (b[i + 1] - 128) * 4096
                                         + (b[i + 2] - 128) * 64
                                         + (b[i + 3] - 128)))
             ELSE Raised("UnicodeDecodeError")
         ELSE Raised("UnicodeDecodeError")

\* variant of Utf8Decode: bytes.decode("latin-1"), one code point per byte
Utf8DecodeLatin1(b) == Returned(b)

Utf8Decode(b) == DecodeFrom(b, 1, << >>)

-----------------------------------------------------------------------------
(* extract_text.  A file is [name, bytes, pages, paragraphs]:                *)
(*   name        file.name, a text                                           *)
(*   bytes       what file.read() returns                                    *)
(*   pages       what pdfplumber.open(file) yields: << >> when it raises,    *)
(*               else << ps >>, ps the sequence of page.extract_text()       *)
(*               results, each optional (<< >> is None)                      *)
(*   paragraphs  what Document(file) yields: << >> when it raises, else      *)
(*               << qs >>, qs the sequence of paragraph texts                *)

\* ".pdf"
SuffixPdf  == << 46, 112, 100, 102 >>
\* ".docx"
SuffixDocx == << 46, 100, 111, 99, 120 >>
\* "\n"
Newline    == << 10 >>

\* name.endswith(suffix)
EndsWith(name, suffix) ==
    /\ Len(name) >= Len(suffix)
    /\ SubSeq(name, Len(name) - Len(suffix) + 1, Len(name)) = suffix

\* variant of PdfLoop: `text += (page_text or "") + "\n"` for every page
RECURSIVE PdfLoopEveryPage(_, _)
PdfLoopEveryPage(ps, text) ==
    IF ps = << >> THEN text
    ELSE LET page_text == Head(ps)
         IN  IF page_text # << >>
             THEN PdfLoopEveryPage(Tail(ps), text \o page_text[1] \o Newline)
             ELSE PdfLoopEveryPage(Tail(ps), text \o Newline)

\* the loop over pdf.pages: `if page_text: text += page_text + "\n"`
RECURSIVE PdfLoop(_, _)
PdfLoop(ps, text) ==
    IF ps = << >> THEN text
    ELSE LET page_text == Head(ps)
         IN  IF page_text # << >> /\ page_text[1] # << >>
             THEN PdfLoop(Tail(ps), text \o page_text[1] \o Newline)
             ELSE PdfLoop(Tail(ps), text)

\* sep.join(items)
RECURSIVE Join(_, _)
Join(sep, items) ==
    IF items = << >> THEN << >>
    ELSE IF Len(items) = 1 THEN items[1]
    ELSE items[1] \o sep \o Join(sep, Tail(items))

\* the branch extract_text takes for a file name
ExtractPath(name) ==
    IF EndsWith(name, SuffixPdf) THEN "pdf"
    ELSE IF EndsWith(name, SuffixDocx) THEN "docx"
    ELSE "raw"

\* extract_text(file)
extract_text(file) ==
    IF ExtractPath(file.name) = "pdf" THEN
        IF file.pages = << >> THEN Raised("PDFSyntaxError")
        ELSE Returned(PdfLoop(file.pages[1], << >>))
    ELSE IF ExtractPath(file.name) = "docx" THEN
        IF file.paragraphs = << >> THEN Raised("PackageNotFoundError")
        ELSE Returned(Join(Newline, file.paragraphs[1]))
    ELSE Utf8Decode(file.bytes)

-----------------------------------------------------------------------------
(* load_api_key. *)

\* load_api_key(): st.secrets.get("GEMINI_API_KEY") or os.getenv(...).
\* Reading st.secrets raises when there is no secrets file at all; with no
\* key from either place the function shows an error and calls st.stop()
load_api_key(secrets, env) ==
    IF secrets = << >> THEN Raised("FileNotFoundError")
    ELSE LET key == IF secrets[1] # "" THEN secrets[1] ELSE env
         IN  IF key = "" THEN Raised("st.stop") ELSE Returned(key)

-----------------------------------------------------------------------------
(* The summarizer: get_model and analyze_with_gemini. *)

\* the loop of get_model over what list_models() yields; an entry is
\* [name, gen, raises]: gen = "generateContent" in supported_generation_methods,
\* raises = the listing raises on reaching this entry
RECURSIVE SelectModel(_)
SelectModel(listing) ==
    IF listing = << >> THEN << >>
    ELSE LET m == Head(listing)
         IN  IF m.raises THEN << >>
             ELSE IF m.gen THEN << m.name >>
             ELSE SelectModel(Tail(listing))

\* variant of CachedGetModel: a stored None counts as no entry
CachedGetModelSkipNone(cache, listing) ==
    IF cache # << >> /\ cache[1] # << >> THEN [result |-> cache[1], ran |-> FALSE]
    ELSE [result |-> SelectModel(listing), ran |-> TRUE]

\* @st.cache_resource on get_model: the stored value when there is one,
\* else the body's result (None is stored like any other value)
CachedGetModel(cache, listing) ==
    IF cache # << >> THEN [result |-> cache[1], ran |-> FALSE]
    ELSE [result |-> SelectModel(listing), ran |-> TRUE]

\* the two fallback messages (each is prefixed by a warning sign in the source)
MsgNoModel   == "AI analysis unavailable. Showing rule-based detection only."
MsgTemporary == "AI analysis temporarily unavailable."

\* analyze_with_gemini(text); `m` is the global model, `response` what
\* model.generate_content(prompt) / response.text produce: << >> when either
\* raises, else << text >>
analyze_with_gemini(m, text, response) ==
    IF m = << >> THEN Returned(MsgNoModel)
    ELSE IF response = << >> THEN Returned(MsgTemporary)
    ELSE Returned(response[1])

-----------------------------------------------------------------------------
(* Bounded inputs. *)

SeqsUpTo(S, n) == UNION { [1..k -> S] : k \in 0..n }

RECURSIVE Flatten(_)
Flatten(ss) == IF ss = << >> THEN << >> ELSE Head(ss) \o Flatten(Tail(ss))

\* str.encode("utf-8") of a text without surrogates; gives the bytes of the
\* text file that holds a text
RECURSIVE Utf8Encode(_)
Utf8Encode(text) ==
    IF text = << >> THEN << >>
    ELSE LET c == Head(text)
             e == IF c < 128 THEN << c >>
                  ELSE IF c < 2048 THEN << 192 + (c \div 64), 128 + (c % 64) >>
                  ELSE IF c < 65536 THEN
                       << 224 + (c \div 4096), 128 + ((c \div 64) % 64),
                          128 + (c % 64) >>
                  ELSE << 240 + (c \div 262144), 128 + ((c \div 4096) % 64),
                          128 + ((c \div 64) % 64), 128 + (c % 64) >>
         IN  e \o Utf8Encode(Tail(text))

\* "TERMINATE"
UpTerminate == << 84, 69, 82, 77, 73, 78, 65, 84, 69 >>
\* "termınate" (dotless i, whose upper case is "I")
DotlessTerminate == << 116, 101, 114, 109, 305, 110, 97, 116, 101 >>
\* "Indemnity"
CapIndemnity == << 73, 110, 100, 101, 109, 110, 105, 116, 121 >>
\* "termin"
PartTermin == << 116, 101, 114, 109, 105, 110 >>
\* "ate "
PartAte == << 97, 116, 101, 32 >>

\* texts handed to rule_based_risk: up to MaxFrags fragments, concatenated
TextFragments ==
    { KwTerminate, UpTerminate, DotlessTerminate, KwIndemnify, CapIndemnity,
      KwJurisdiction, PartTermin, PartAte }

Texts == { Flatten(fs) : fs \in SeqsUpTo(TextFragments, MaxFrags) }

\* raw file contents: up to MaxFrags byte fragments, concatenated.  Besides
\* encoded words: a two-byte lead alone (0xC4), a continuation byte alone
\* (0xB1; 0xC4 0xB1 together encode U+0131), 0xFF, the three-byte euro sign
\* and an encoded surrogate (0xED 0xA0 0x80), which UTF-8 forbids
ByteFragments ==
    { Utf8Encode(KwTerminate), Utf8Encode(UpTerminate), Utf8Encode(CapIndemnity),
      Utf8Encode(KwJurisdiction),
      << 196 >>, << 177 >>, << 255 >>, << 226, 130, 172 >>, << 237, 160, 128 >> }

ByteContents == { Flatten(fs) : fs \in SeqsUpTo(ByteFragments, MaxFrags) }

\* page.extract_text() results: None, "", or a text
PageTexts == { << >>, << << >> >>, << KwTerminate >>, << UpTerminate >>,
               << KwJurisdiction >> }

\* paragraph texts
ParaTexts == { << >>, KwTerminate, CapIndemnity, PartTermin, PartAte }

\* "a.pdf", "a.docx", "a.txt", "a.PDF"
NamePdf    == << 97 >> \o SuffixPdf
NameDocx   == << 97 >> \o SuffixDocx
NameTxt    == << 97, 46, 116, 120, 116 >>
NameUpPdf  == << 97, 46, 80, 68, 70 >>

PdfFile(ps)  == [name |-> NamePdf,  bytes |-> << >>, pages |-> ps, paragraphs |-> << >>]
DocxFile(qs) == [name |-> NameDocx, bytes |-> << >>, pages |-> << >>, paragraphs |-> qs]
RawFile(n, b) == [name |-> n, bytes |-> b, pages |-> << >>, paragraphs |-> << >>]

Files ==
    { PdfFile(<< ps >>) : ps \in SeqsUpTo(PageTexts, MaxPages) }
    \cup { PdfFile(<< >>) }
    \cup { DocxFile(<< qs >>) : qs \in SeqsUpTo(ParaTexts, MaxParas) }
    \cup { DocxFile(<< >>) }
    \cup { RawFile(n, b) : n \in { NameTxt, NameUpPdf }, b \in ByteContents }

\* what a user interaction leaves in the uploader: nothing, or one of these
SampleUploads ==
    { << >>,
      << RawFile(NameTxt, Utf8Encode(KwTerminate)) >>,
      << RawFile(NameTxt, Utf8Encode(KwTerminate) \o << 255 >>) >>,
      << RawFile(NameUpPdf, << 37, 80, 68, 70, 255 >>) >>,
      << PdfFile(<< << << UpTerminate >>, << >>, << KwJurisdiction >> >> >>) >>,
      << PdfFile(<< >>) >>,
      << DocxFile(<< << CapIndemnity, << >> >> >>) >> }

\* what list_models() can yield: up to MaxModels entries
ModelEntries ==
    { [name |-> "models/a", gen |-> TRUE,  raises |-> FALSE],
      [name |-> "models/b", gen |-> TRUE,  raises |-> FALSE],
      [name |-> "models/embed", gen |-> FALSE, raises |-> FALSE],
      [name |-> "", gen |-> FALSE, raises |-> TRUE] }

Listings == SeqsUpTo(ModelEntries, MaxModels)

\* with a key the service rejects, listing raises at once
ListingsFor(key) ==
    IF key = "valid" THEN Listings
    ELSE { l \in Listings : l # << >> /\ l[1].raises }

\* what generate_content / response.text can produce
Responses == { << >>, << "narrative" >> }

NoCalls == [extract |-> 0, score |-> 0, gemini |-> 0]

-----------------------------------------------------------------------------
(* The script.  Streamlit runs app.py top to bottom on every interaction;   *)
(* the st.cache_resource entry and the uploader's content outlive a run.    *)

Ended == pc \in { "idle", "done", "stopped", "crashed", "failed" }

Init ==
    /\ secrets_file \in { << >>, << "" >>, << "valid" >>, << "invalid" >> }
    /\ env_key \in { "", "valid" }
    /\ api_key = ""
    /\ model_cache = << >>
    /\ listed = << >>
    /\ selections = 0
    /\ runs = 0
    /\ pc = "idle"
    /\ model = << >>
    /\ widget_value = << >>
    /\ uploader = FALSE
    /\ uploaded_file = << >>
    /\ path = ""
    /\ error = ""
    /\ contract_text = << >>
    /\ risks = << >>
    /\ risk_level = ""
    /\ shown = << >>
    /\ prompt_text = << >>
    /\ ai_result = << >>
    /\ calls = NoCalls
    /\ failed_before = FALSE
    /\ reply = ""

\* the page is opened, or the user uploads, replaces or clears the file in the
\* uploader of the page the last run left (there is one only when that run
\* passed line 140): the script runs again from the top
StartRun ==
    /\ Ended
    /\ runs < MaxRuns
    /\ \E f \in (IF uploader THEN SampleUploads ELSE { widget_value }) :
          widget_value' = f
    /\ runs' = runs + 1
    /\ pc' = "start"
    /\ failed_before' = (failed_before \/ pc = "failed")
    /\ uploader' = FALSE
    /\ api_key' = ""
    /\ model' = << >>
    /\ uploaded_file' = << >>
    /\ path' = ""
    /\ error' = ""
    /\ contract_text' = << >>
    /\ risks' = << >>
    /\ risk_level' = ""
    /\ shown' = << >>
    /\ prompt_text' = << >>
    /\ ai_result' = << >>
    /\ calls' = NoCalls
    /\ reply' = ""
    /\ UNCHANGED << secrets_file, env_key, model_cache, listed, selections >>

\* api_key = load_api_key(); genai.configure(api_key=api_key)
LoadApiKey ==
    /\ pc = "start"
    /\ LET r == load_api_key(secrets_file, env_key)
       IN  /\ pc' = IF r.ok THEN "configured"
                    ELSE IF r.error = "st.stop" THEN "stopped"
                    ELSE "crashed"
           /\ api_key' = IF r.ok THEN r.value ELSE api_key
           /\ error' = IF r.ok \/ r.error = "st.stop" THEN "" ELSE r.error
    /\ UNCHANGED << secrets_file, env_key, model_cache, listed, selections,
                    runs, model, widget_value, uploader, uploaded_file, path,
                    contract_text, risks, risk_level, shown, prompt_text,
                    ai_result, calls, failed_before, reply >>

\* model = get_model()
GetModel ==
    /\ pc = "configured"
    /\ \E listing \in ListingsFor(api_key) :
          LET got == CachedGetModel(model_cache, listing)
          IN  /\ model' = got.result
              /\ model_cache' = << got.result >>
              /\ listed' = IF got.ran THEN listing ELSE listed
              /\ selections' = IF got.ran THEN selections + 1 ELSE selections
    /\ pc' = "ready"
    /\ UNCHANGED << secrets_file, env_key, api_key, runs, widget_value,
                    uploader, uploaded_file, path, error, contract_text,
                    risks, risk_level, shown, prompt_text, ai_result, calls,
                    failed_before, reply >>

\* uploaded_file = st.file_uploader(...): the uploader is on the page and
\* returns what the user has put in it
FileUploader ==
    /\ pc = "ready"
    /\ uploader' = TRUE
    /\ uploaded_file' = widget_value
    /\ pc' = "uploaded"
    /\ UNCHANGED << secrets_file, env_key, api_key, model_cache, listed,
                    selections, runs, model, widget_value, path, error,
                    contract_text, risks, risk_level, shown, prompt_text,
                    ai_result, calls, failed_before, reply >>

\* `if uploaded_file:` is false: the run ends with the uploader alone
NoUpload ==
    /\ pc = "uploaded"
    /\ uploaded_file = << >>
    /\ pc' = "done"
    /\ UNCHANGED << secrets_file, env_key, api_key, model_cache, listed,
                    selections, runs, model, widget_value, uploader,
                    uploaded_file, path, error, contract_text, risks,
                    risk_level, shown, prompt_text, ai_result, calls,
                    failed_before, reply >>

\* variant of ExtractStep: a failed extraction is swallowed and the run goes
\* on with the empty text
ExtractStepSwallow ==
    /\ pc = "uploaded"
    /\ uploaded_file # << >>
    /\ LET r == extract_text(uploaded_file[1])
       IN  /\ path' = ExtractPath(uploaded_file[1].name)
           /\ pc' = "extracted"
           /\ error' = ""
           /\ contract_text' = IF r.ok THEN r.value ELSE << >>
    /\ calls' = [calls EXCEPT !.extract = @ + 1]
    /\ UNCHANGED << secrets_file, env_key, api_key, model_cache, listed,
                    selections, runs, model, widget_value, uploader,
                    uploaded_file, risks, risk_level, shown, prompt_text,
                    ai_result, failed_before, reply >>

\* contract_text = extract_text(uploaded_file); an exception ends the run
ExtractStep ==
    /\ pc = "uploaded"
    /\ uploaded_file # << >>
    /\ LET r == extract_text(uploaded_file[1])
       IN  /\ path' = ExtractPath(uploaded_file[1].name)
           /\ pc' = IF r.ok THEN "extracted" ELSE "failed"
           /\ error' = r.error
           /\ contract_text' = IF r.ok THEN r.value ELSE contract_text
    /\ calls' = [calls EXCEPT !.extract = @ + 1]
    /\ UNCHANGED << secrets_file, env_key, api_key, model_cache, listed,
                    selections, runs, model, widget_value, uploader,
                    uploaded_file, risks, risk_level, shown, prompt_text,
                    ai_result, failed_before, reply >>

\* risks, risk_level = rule_based_risk(contract_text)
ScoreStep ==
    /\ pc = "extracted"
    /\ LET r == rule_based_risk(contract_text)
       IN  /\ risks' = r[1]
           /\ risk_level' = r[2]
    /\ calls' = [calls EXCEPT !.score = @ + 1]
    /\ pc' = "scored"
    /\ UNCHANGED << secrets_file, env_key, api_key, model_cache, listed,
                    selections, runs, model, widget_value, uploader,
                    uploaded_file, path, error, contract_text, shown,
                    prompt_text, ai_result, failed_before, reply >>

\* the summary and the list of detected clauses are written to the page
ShowRisks ==
    /\ pc = "scored"
    /\ shown' = << << risks, risk_level >> >>
    /\ pc' = "shown"
    /\ UNCHANGED << secrets_file, env_key, api_key, model_cache, listed,
                    selections, runs, model, widget_value, uploader,
                    uploaded_file, path, error, contract_text, risks,
                    risk_level, prompt_text, ai_result, calls, failed_before,
                    reply >>

\* variant of AnalyzeStep: the summarizer gets the text cut to four characters
AnalyzeStepTruncated ==
    /\ pc = "shown"
    /\ \E response \in Responses :
          LET cut == SubSeq(contract_text, 1, IF Len(contract_text) < 4
                                              THEN Len(contract_text) ELSE 4)
              r == analyze_with_gemini(model, cut, response)
          IN  /\ pc' = IF r.ok THEN "analyzed" ELSE "failed"
              /\ error' = r.error
              /\ ai_result' = IF r.ok THEN << r.value >> ELSE ai_result
              /\ reply' = IF model = << >> THEN ""
                          ELSE IF response = << >> THEN "raised"
                          ELSE "returned"
              /\ prompt_text' = << cut >>
    /\ calls' = [calls EXCEPT !.gemini = @ + 1]
    /\ UNCHANGED << secrets_file, env_key, api_key, model_cache, listed,
                    selections, runs, model, widget_value, uploader,
                    uploaded_file, path, contract_text, risks, risk_level,
                    shown, failed_before >>

\* ai_result = analyze_with_gemini(contract_text); st.write(ai_result)
AnalyzeStep ==
    /\ pc = "shown"
    /\ \E response \in Responses :
          LET r == analyze_with_gemini(model, contract_text, response)
          IN  /\ pc' = IF r.ok THEN "analyzed" ELSE "failed"
              /\ error' = r.error
              /\ ai_result' = IF r.ok THEN << r.value >> ELSE ai_result
              /\ reply' = IF model = << >> THEN ""
                          ELSE IF response = << >> THEN "raised"
                          ELSE "returned"
    /\ prompt_text' = << contract_text >>
    /\ calls' = [calls EXCEPT !.gemini = @ + 1]
    /\ UNCHANGED << secrets_file, env_key, api_key, model_cache, listed,
                    selections, runs, model, widget_value, uploader,
                    uploaded_file, path, contract_text, risks, risk_level,
                    shown, failed_before >>

\* st.download_button(data=ai_result): the run is complete
Download ==
    /\ pc = "analyzed"
    /\ pc' = "done"
    /\ UNCHANGED << secrets_file, env_key, api_key, model_cache, listed,
                    selections, runs, model, widget_value, uploader,
                    uploaded_file, path, error, contract_text, risks,
                    risk_level, shown, prompt_text, ai_result, calls,
                    failed_before, reply >>

Next ==
    \/ StartRun
    \/ LoadApiKey
    \/ GetModel
    \/ FileUploader
    \/ NoUpload
    \/ ExtractStep
    \/ ScoreStep
    \/ ShowRisks
    \/ AnalyzeStep
    \/ Download

Spec == Init /\ [][Next]_vars

-----------------------------------------------------------------------------
(* Specifications of the two pure functions over their bounded inputs.      *)

\* a run has reached line 151 with a text file holding `t`, the key coming
\* from the secrets file and the listing having offered no model
InitScore ==
    /\ secrets_file = << "valid" >>
    /\ env_key = ""
    /\ api_key = "valid"
    /\ model_cache = << << >> >>
    /\ listed = << >>
    /\ selections = 1
    /\ runs = 2
    /\ pc = "extracted"
    /\ model = << >>
    /\ \E t \in Texts :
          /\ contract_text = t
          /\ widget_value = << RawFile(NameTxt, Utf8Encode(t)) >>
          /\ uploaded_file = << RawFile(NameTxt, Utf8Encode(t)) >>
    /\ uploader = TRUE
    /\ path = "raw"
    /\ error = ""
    /\ risks = << >>
    /\ risk_level = ""
    /\ shown = << >>
    /\ prompt_text = << >>
    /\ ai_result = << >>
    /\ calls = [extract |-> 1, score |-> 0, gemini |-> 0]
    /\ failed_before = FALSE
    /\ reply = ""

SpecScore == InitScore /\ [][ScoreStep]_vars

\* a run has reached line 145 with some file uploaded
InitExtract ==
    /\ secrets_file = << "valid" >>
    /\ env_key = ""
    /\ api_key = "valid"
    /\ model_cache = << << >> >>
    /\ listed = << >>
    /\ selections = 1
    /\ runs = 2
    /\ pc = "uploaded"
    /\ model = << >>
    /\ \E f \in Files :
          /\ widget_value = << f >>
          /\ uploaded_file = << f >>
    /\ uploader = TRUE
    /\ path = ""
    /\ error = ""
    /\ contract_text = << >>
    /\ risks = << >>
    /\ risk_level = ""
    /\ shown = << >>
    /\ prompt_text = << >>
    /\ ai_result = << >>
    /\ calls = NoCalls
    /\ failed_before = FALSE
    /\ reply = ""

SpecExtract == InitExtract /\ [][ExtractStep]_vars

-----------------------------------------------------------------------------
(* Properties of rule_based_risk, under SpecScore.                          *)

Levels == { "Low", "Medium", "High" }

\* C1: for every text, the empty one included, rule_based_risk returns a pair
\* (findings, level) whose level is "Low" for 0 findings, "Medium" for exactly
\* 1 and "High" for 2 or 3; no other level and no other count occurs, and the
\* function has a value on every text.
C1_LevelFromCount ==
    /\ pc = "extracted" => rule_based_risk(contract_text)[2] \in Levels
    /\ pc = "scored" =>
          /\ Len(risks) \in 0..3
          /\ risk_level \in Levels
          /\ (Len(risks) = 0 => risk_level = "Low")
          /\ (Len(risks) = 1 => risk_level = "Medium")
          /\ (Len(risks) \in 2..3 => risk_level = "High")

\* all three triggers fired on one text
C1_Witness ==
    /\ pc = "scored"
    /\ Len(risks) = 3
    /\ risk_level = "High"

\* kw occurs in t as a contiguous run of characters
HasSubstring(kw, t) ==
    \E i \in 1..Len(t) : \E j \in i..Len(t) : SubSeq(t, i, j) = kw

InFindings(label) == \E i \in 1..Len(risks) : risks[i] = label

\* C2: each label is among the findings if and only if the lower-cased text
\* contains its keyword ("terminate"; "indemnify" or "indemnity";
\* "jurisdiction"), whatever the other two triggers do.
C2_TriggersExact ==
    pc = "scored" =>
        LET t == Lower(contract_text)
        IN  /\ InFindings(TerminationLabel) <=> HasSubstring(KwTerminate, t)
            /\ InFindings(IndemnityLabel) <=>
                  (HasSubstring(KwIndemnify, t) \/ HasSubstring(KwIndemnity, t))
            /\ InFindings(JurisdictionLabel) <=> HasSubstring(KwJurisdiction, t)

\* the first trigger fires and the second does too, the third does not
C2_Witness ==
    /\ pc = "scored"
    /\ HasSubstring(KwTerminate, Lower(contract_text))
    /\ risks = << TerminationLabel, IndemnityLabel >>

Checklist == << TerminationLabel, IndemnityLabel, JurisdictionLabel >>

\* s is c with some entries left out, the others in c's order
IsSubsequence(s, c) ==
    \E f \in [1..Len(s) -> 1..Len(c)] :
        /\ \A i, j \in 1..Len(s) : i < j => f[i] < f[j]
        /\ \A i \in 1..Len(s) : s[i] = c[f[i]]

\* C3: the findings are an order-preserving subsequence of the checklist
\* [termination, indemnity, jurisdiction]: no label twice, however often its
\* keyword occurs, and never in another order, wherever the keywords sit.
C3_ChecklistOrder ==
    pc = "scored" => IsSubsequence(risks, Checklist)

\* "jurisdiction" precedes two occurrences of "terminate" in the text
C3_Witness ==
    /\ pc = "scored"
    /\ contract_text = KwJurisdiction \o KwTerminate \o KwTerminate
    /\ risks = << TerminationLabel, JurisdictionLabel >>

\* str.upper() of one code point, for the letters the model's texts use:
\* ASCII letters, and U+0131 whose upper case is "I"
UpperChar(c) ==
    IF c \in 97..122 THEN c - 32
    ELSE IF c = 305 THEN 73
    ELSE c

\* a and b have the same characters up to letter case
DifferOnlyInCase(a, b) ==
    /\ Len(a) = Len(b)
    /\ \A i \in 1..Len(a) :
          \/ a[i] = b[i]
          \/ UpperChar(a[i]) = b[i]
          \/ UpperChar(b[i]) = a[i]

\* C4: rule_based_risk is case-insensitive: two texts that differ only in the
\* letter case of their characters get identical findings and levels.
C4_CaseInsensitive ==
    pc = "scored" =>
        \A u \in Texts :
            DifferOnlyInCase(contract_text, u) =>
                rule_based_risk(u) = << risks, risk_level >>

-----------------------------------------------------------------------------
(* Properties of a script run, under Spec.                                  *)

RunOver == runs > 0 /\ pc \in { "done", "stopped", "crashed", "failed" }

Extractable == uploaded_file # << >> /\ extract_text(uploaded_file[1]).ok

Unextractable == uploaded_file # << >> /\ ~extract_text(uploaded_file[1]).ok

\* the rule-based result for the uploaded document
Assessment == rule_based_risk(extract_text(uploaded_file[1]).value)

Fallbacks == { << MsgNoModel >>, << MsgTemporary >> }

\* no key is configured: neither the secrets file nor the environment has one
KeyUnconfigured ==
    (secrets_file = << >> \/ secrets_file = << "" >>) /\ env_key = ""

\* the summarizer is of no use in this run: no key is configured, or the run
\* got its model and there is none (the service was unreachable, listed
\* nothing usable or rejected the key), or the generate call raised
SummarizerDown ==
    \/ KeyUnconfigured
    \/ (calls.extract > 0 /\ model = << >>)
    \/ reply = "raised"

\* C5: a failure of the summarizer never fails the request.  Whenever the
\* summarizer is down, unconfigured credentials included, the run is not ended
\* by an error or a stop on the summarizer's account, and a run on a readable
\* document ends having delivered the rule-based findings and level, with a
\* fallback message as summarizer result.
C5_SummarizerNeverFailsRun ==
    (RunOver /\ SummarizerDown) =>
        /\ pc \notin { "stopped", "crashed" }
        /\ Extractable =>
              /\ pc = "done"
              /\ shown = << Assessment >>
              /\ ai_result \in Fallbacks

\* C6: a failed extraction ends its run before rule_based_risk and
\* analyze_with_gemini are invoked and with nothing delivered; the failing
\* step leaves the cached model handle as it was; nothing happens after it
\* until the user starts a new run; and a later run on a readable document
\* completes with its assessment.
C6_ExtractionFailureLocal ==
    /\ [](/\ (Unextractable /\ calls.extract > 0) =>
                /\ pc = "failed"
                /\ error # ""
                /\ calls = [extract |-> 1, score |-> 0, gemini |-> 0]
                /\ shown = << >>
                /\ prompt_text = << >>
                /\ ai_result = << >>
          /\ (failed_before /\ RunOver /\ Extractable) =>
                /\ pc = "done"
                /\ shown = << Assessment >>
                /\ ai_result # << >>)
    /\ [][/\ pc' = "failed" =>
                /\ model_cache' = model_cache
                /\ selections' = selections
                /\ listed' = listed
                /\ api_key' = api_key
          /\ pc = "failed" => (runs' = runs + 1 /\ pc' = "start")]_vars

\* after a run that failed to extract, a run on a readable document is complete
C6_Witness ==
    /\ failed_before
    /\ pc = "done"
    /\ Extractable
    /\ shown = << Assessment >>
    /\ model_cache # << >>

\* C9: in a run, extract_text, rule_based_risk and analyze_with_gemini are each
\* invoked at most once and in that order; the findings come from the extracted
\* text, the summarizer is invoked with that same text after the findings are
\* on the page, a completed run has invoked each exactly once, and what is on
\* the page does not change when the summarizer answers.
C9_ExtractScoreSummarize ==
    /\ [](/\ calls.extract <= 1 /\ calls.score <= 1 /\ calls.gemini <= 1
          /\ calls.score = 1 =>
                /\ calls.extract = 1
                /\ Extractable
                /\ contract_text = extract_text(uploaded_file[1]).value
                /\ << risks, risk_level >> = rule_based_risk(contract_text)
          /\ calls.gemini = 1 =>
                /\ calls.score = 1
                /\ shown = << << risks, risk_level >> >>
                /\ prompt_text = << contract_text >>
          /\ (pc = "done" /\ uploaded_file # << >>) =>
                /\ calls = [extract |-> 1, score |-> 1, gemini |-> 1]
                /\ shown = << Assessment >>)
    /\ [][pc = "shown" =>
             /\ shown' = shown
             /\ risks' = risks
             /\ risk_level' = risk_level
             /\ contract_text' = contract_text]_vars

\* a completed run on the three-page pdf, the summarizer having answered
C9_Witness ==
    /\ pc = "done"
    /\ calls = [extract |-> 1, score |-> 1, gemini |-> 1]
    /\ risks = << TerminationLabel, JurisdictionLabel >>
    /\ reply = "returned"
    /\ ai_result = << "narrative" >>

\* the first entry that supports generateContent, when the listing reaches
\* one without raising
FirstSupporting(listing) ==
    LET hits == { i \in 1..Len(listing) :
                    /\ listing[i].gen
                    /\ \A j \in 1..i : ~listing[j].raises
                    /\ \A j \in 1..(i - 1) : ~listing[j].gen }
    IN  IF hits = {} THEN << >>
        ELSE << listing[CHOOSE i \in hits : TRUE].name >>

\* C10: model selection runs at most once over all runs; its result is the
\* first listed model that supports generateContent, or no model when there is
\* none or the listing raises; every run that gets past get_model uses that
\* stored result, the no-model result too.
C10_SelectOnceReuse ==
    /\ selections <= 1
    /\ (model_cache = << >>) <=> (selections = 0)
    /\ model_cache # << >> => model_cache[1] = FirstSupporting(listed)
    /\ pc \in { "ready", "uploaded", "extracted", "scored", "shown",
                "analyzed", "done", "failed" } =>
          /\ model_cache # << >>
          /\ model = model_cache[1]

\* a second run completed on the stored no-model result of a listing that
\* offered nothing usable
C10_Witness ==
    /\ runs = 2
    /\ pc = "done"
    /\ uploaded_file # << >>
    /\ selections = 1
    /\ listed # << >>
    /\ model_cache = << << >> >>
    /\ ai_result = << MsgNoModel >>

-----------------------------------------------------------------------------
(* Properties of extract_text, under SpecExtract.                           *)

\* b is a concatenation of well-formed UTF-8 byte sequences (Unicode 15,
\* table 3-7)
RECURSIVE WellFormedUtf8(_)
WellFormedUtf8(b) ==
    \/ b = << >>
    \/ /\ Len(b) >= 1
       /\ b[1] \in 0..127
       /\ WellFormedUtf8(SubSeq(b, 2, Len(b)))
    \/ /\ Len(b) >= 2
       /\ b[1] \in 194..223 /\ b[2] \in 128..191
       /\ WellFormedUtf8(SubSeq(b, 3, Len(b)))
    \/ /\ Len(b) >= 3
       /\ \/ b[1] = 224 /\ b[2] \in 160..191
          \/ b[1] \in 225..236 /\ b[2] \in 128..191
          \/ b[1] = 237 /\ b[2] \in 128..159
          \/ b[1] \in 238..239 /\ b[2] \in 128..191
       /\ b[3] \in 128..191
       /\ WellFormedUtf8(SubSeq(b, 4, Len(b)))
    \/ /\ Len(b) >= 4
       /\ \/ b[1] = 240 /\ b[2] \in 144..191
          \/ b[1] \in 241..243 /\ b[2] \in 128..191
          \/ b[1] = 244 /\ b[2] \in 128..143
       /\ b[3] \in 128..191 /\ b[4] \in 128..191
       /\ WellFormedUtf8(SubSeq(b, 5, Len(b)))

\* C7: a name ending in ".pdf" takes the pdf path, any other name ending in
\* ".docx" the docx path, every other name the raw path; no call fails for
\* want of a supported format; on the raw path the call fails exactly when the
\* bytes are not well-formed UTF-8, and otherwise returns the text those bytes
\* encode.
C7_DispatchAndDecode ==
    pc \in { "extracted", "failed" } =>
        LET f == uploaded_file[1]
        IN  /\ path \in { "pdf", "docx", "raw" }
            /\ (path = "pdf") <=> EndsWith(f.name, SuffixPdf)
            /\ (path = "docx") <=>
                  (~EndsWith(f.name, SuffixPdf) /\ EndsWith(f.name, SuffixDocx))
            /\ error # "UnsupportedFormatError"
            /\ path = "raw" =>
                  /\ (pc = "extracted") <=> WellFormedUtf8(f.bytes)
                  /\ pc = "extracted" => Utf8Encode(contract_text) = f.bytes
                  /\ pc = "failed" => error = "UnicodeDecodeError"

\* "a.PDF" went down the raw path and decoded to a text with U+0131 in it
C7_Witness ==
    /\ pc = "extracted"
    /\ path = "raw"
    /\ uploaded_file[1].name = NameUpPdf
    /\ \E i \in 1..Len(contract_text) : contract_text[i] = 305

HasText(page_text) == page_text # << >> /\ page_text[1] # << >>

\* C8: for a pdf, the result is the concatenation, in page order, of (page
\* text, newline) over exactly the pages whose extraction gave a non-empty
\* text; a page giving None or "" adds nothing, so a pdf without such a page
\* gives "".
C8_PdfPagesConcatenated ==
    (pc \in { "extracted", "failed" } /\ path = "pdf"
        /\ uploaded_file[1].pages # << >>) =>
        LET kept == SelectSeq(uploaded_file[1].pages[1], HasText)
        IN  /\ pc = "extracted"
            /\ contract_text =
                  Flatten([i \in 1..Len(kept) |-> kept[i][1] \o Newline])

\* a page with text, a page without, a page with text
C8_Witness ==
    /\ pc = "extracted"
    /\ path = "pdf"
    /\ uploaded_file[1].pages =
          << << << KwTerminate >>, << >>, << KwJurisdiction >> >> >>
    /\ contract_text = KwTerminate \o Newline \o KwJurisdiction \o Newline

=============================================================================
